---------------------------- MODULE Spec2Model ----------------------------
(***************************************************************************)
(* A model of the cryo repository: the plotting notebook                   *)
(* (src/ipynb/plots.ipynb), the print-view script (src/unnamed/part_000)   *)
(* and the insert-symbol loader                                            *)
(* (mavention.sharepoint.insertsymbol.loader.js).                          *)
(*                                                                         *)
(* Text is a sequence of one-character strings, so that strip, lower,      *)
(* split, float and startswith are computed as Python computes them.       *)
(* The notebook is Python 2 (nbformat 3; map() returns a list, which       *)
(* np.asarray needs to build a table), and numbers are the integers the    *)
(* log texts denote: every value used is exactly representable as a        *)
(* double, and so is every difference taken.                               *)
(***************************************************************************)
EXTENDS Integers, Sequences, FiniteSets, TLC

VARIABLES
    disk,         \* the data directory: file name -> sequence of lines
    files,        \* session variable files (line 138)
    lockinfiles,  \* session variable lockinfiles (line 139)
    psfiles,      \* session variable psfiles (line 140)
    run,          \* session variable run (lines 84-88)
    run_ps,       \* session variable run_ps (lines 90-94)
    lockindata,   \* session variable lockindata (lines 157-162)
    psdata,       \* session variable psdata (lines 174-179)
    offset,       \* session variable offset (lines 102, 202)
    heap,         \* the numpy arrays, by the line that builds them
    out,          \* what the last executed cell did and drew
    ftable,       \* threshold filter alone: the table it is applied to
    fprev,        \* threshold filter alone: the table before the last application
    fref,         \* threshold filter alone: the reference constant
    fthr,         \* threshold filter alone: the threshold
    fapplied,     \* threshold filter alone: the number of applications
    dom,          \* print view: element id -> presence and style
    ppc,          \* print view: the next statement of the script (1..8, 9 at its end)
    pthrew,       \* print view: the script ended in a TypeError
    loaded,       \* loader: the scripts that have loaded
    waiting,      \* loader: script -> the callbacks delayed until it loads
    started,      \* loader: the loader script has run
    query,        \* loader: the site query (none, pending, succeeded, failed)
    sods,         \* loader: the scripts registered on demand
    sodExec,      \* loader: the on-demand execution (idle, loading, done)
    events        \* loader: the page's events in the order they happened

nbvars == <<disk, files, lockinfiles, psfiles, run, run_ps, lockindata, psdata,
            offset, heap, out>>
fvars == <<ftable, fprev, fref, fthr, fapplied>>
pvars == <<dom, ppc, pthrew>>
svars == <<loaded, waiting, started, query, sods, sodExec, events>>
vars == <<nbvars, fvars, pvars, svars>>

---------------------------------------------------------------------------
(* Bounds of the model.                                                    *)
MaxLines == 2
MaxFiles == 3
MaxRows == 3
MaxApply == 2

---------------------------------------------------------------------------
(* Python text operations.                                                 *)

Whitespace == {" ", "\n", "\t", "\r"}
Digit == {"0", "1", "2", "3", "4", "5", "6", "7", "8", "9"}

RECURSIVE LStrip(_)
LStrip(s) == IF s # <<>> /\ Head(s) \in Whitespace THEN LStrip(Tail(s)) ELSE s

RECURSIVE RStrip(_)
RStrip(s) ==
    IF s # <<>> /\ s[Len(s)] \in Whitespace
    THEN RStrip(SubSeq(s, 1, Len(s) - 1))
    ELSE s

\* str.strip()
Strip(s) == RStrip(LStrip(s))

LowerChar(c) ==
    CASE c = "E" -> "e"
      [] c = "L" -> "l"
      [] c = "A" -> "a"
      [] OTHER -> c

\* str.lower()
Lower(s) == [i \in 1..Len(s) |-> LowerChar(s[i])]

\* str.split(sep): always at least one field; '' splits to ['']
RECURSIVE Split(_, _)
Split(s, sep) ==
    IF \A i \in 1..Len(s) : s[i] # sep
    THEN <<s>>
    ELSE LET k == CHOOSE i \in 1..Len(s) :
                      s[i] = sep /\ \A j \in 1..(i - 1) : s[j] # sep
         IN  <<SubSeq(s, 1, k - 1)>> \o Split(SubSeq(s, k + 1, Len(s)), sep)

\* A test for the prefix anywhere in the name.
Contains(s, prefix) ==
    \E k \in 1..Len(s) :
        /\ k + Len(prefix) - 1 <= Len(s)
        /\ SubSeq(s, k, k + Len(prefix) - 1) = prefix

\* str.startswith(prefix)
StartsWith(s, prefix) ==
    Len(s) >= Len(prefix) /\ SubSeq(s, 1, Len(prefix)) = prefix

DigitVal(c) ==
    CASE c = "0" -> 0 [] c = "1" -> 1 [] c = "2" -> 2 [] c = "3" -> 3
      [] c = "4" -> 4 [] c = "5" -> 5 [] c = "6" -> 6 [] c = "7" -> 7
      [] c = "8" -> 8 [] c = "9" -> 9

IsDigits(s) == s # <<>> /\ \A i \in 1..Len(s) : s[i] \in Digit

RECURSIVE DigitsToNat(_)
DigitsToNat(s) ==
    IF s = <<>> THEN 0
    ELSE DigitsToNat(SubSeq(s, 1, Len(s) - 1)) * 10 + DigitVal(s[Len(s)])

RECURSIVE Pow10(_)
Pow10(n) == IF n = 0 THEN 1 ELSE 10 * Pow10(n - 1)

NotAFloat == [ok |-> FALSE, val |-> 0]

\* digits, or digits e digits / digits E digits (a non-negative exponent)
ParseUnsigned(s) ==
    LET es == {i \in 1..Len(s) : s[i] \in {"e", "E"}}
    IN  IF es = {}
        THEN IF IsDigits(s) THEN [ok |-> TRUE, val |-> DigitsToNat(s)]
             ELSE NotAFloat
        ELSE IF Cardinality(es) > 1 THEN NotAFloat
        ELSE LET k == CHOOSE i \in es : TRUE
                 m == SubSeq(s, 1, k - 1)
                 x == SubSeq(s, k + 1, Len(s))
                 xd == IF x # <<>> /\ Head(x) = "+" THEN Tail(x) ELSE x
             IN  IF IsDigits(m) /\ IsDigits(xd)
                 THEN [ok |-> TRUE, val |-> DigitsToNat(m) * Pow10(DigitsToNat(xd))]
                 ELSE NotAFloat

\* float(text): surrounding whitespace is ignored, an optional sign, then the
\* number; anything else (the empty text too) raises ValueError.  The texts
\* the model draws are decimal integers with an optional exponent; of the
\* other texts float() accepts (a fraction, inf, nan) none is drawn.
ParseFloat(s) ==
    LET t == Strip(s)
    IN  IF t = <<>> THEN NotAFloat
        ELSE IF Head(t) = "-"
        THEN LET u == ParseUnsigned(Tail(t))
             IN  [ok |-> u.ok, val |-> 0 - u.val]
        ELSE IF Head(t) = "+" THEN ParseUnsigned(Tail(t))
        ELSE ParseUnsigned(t)

\* map(float, line.strip().lower().split(','))
ParseLine(line) ==
    LET fields == Split(Lower(Strip(line)), ",")
    IN  [i \in 1..Len(fields) |-> ParseFloat(fields[i])]

\* A loop that puts each new row in front of the list.
RECURSIVE ReadRowsPrepend(_, _)
ReadRowsPrepend(lines, acc) ==
    IF lines = <<>> THEN [err |-> "none", rows |-> acc]
    ELSE LET vals == ParseLine(Head(lines))
         IN  IF \E i \in 1..Len(vals) : ~vals[i].ok
             THEN [err |-> "ValueError", rows |-> acc]
             ELSE ReadRowsPrepend(Tail(lines),
                      <<[i \in 1..Len(vals) |-> vals[i].val]>> \o acc)

\* A loop that skips the lines float() rejects.
RECURSIVE ReadRowsSkipBad(_, _)
ReadRowsSkipBad(lines, acc) ==
    IF lines = <<>> THEN [err |-> "none", rows |-> acc]
    ELSE LET vals == ParseLine(Head(lines))
         IN  IF \E i \in 1..Len(vals) : ~vals[i].ok
             THEN ReadRowsSkipBad(Tail(lines), acc)
             ELSE ReadRowsSkipBad(Tail(lines),
                      Append(acc, [i \in 1..Len(vals) |-> vals[i].val]))

\* for line in fh: rows.append(map(float, ...)), continuing the list acc.
\* The first field float() rejects raises ValueError and leaves the rows
\* appended so far in the list.
RECURSIVE ReadRows(_, _)
ReadRows(lines, acc) ==
    IF lines = <<>> THEN [err |-> "none", rows |-> acc]
    ELSE LET vals == ParseLine(Head(lines))
         IN  IF \E i \in 1..Len(vals) : ~vals[i].ok
             THEN [err |-> "ValueError", rows |-> acc]
             ELSE ReadRows(Tail(lines),
                           Append(acc, [i \in 1..Len(vals) |-> vals[i].val]))

---------------------------------------------------------------------------
(* numpy arrays.  An array is [ndim, ncols, rows]: a table has ndim 2; the *)
(* empty list and a list of rows of different lengths give a               *)
(* one-dimensional array (of nothing, respectively of row objects).        *)

NoArray == [ndim |-> 0, ncols |-> 0, rows |-> <<>>]

\* np.asarray(rows)
AsArray(rows) ==
    IF rows = <<>> THEN [ndim |-> 1, ncols |-> 0, rows |-> <<>>]
    ELSE IF \A i \in 1..Len(rows) : Len(rows[i]) = Len(rows[1])
    THEN [ndim |-> 2, ncols |-> Len(rows[1]), rows |-> rows]
    ELSE [ndim |-> 1, ncols |-> 0, rows |-> rows]

\* a[:,j], j counted from 0 as in the source: IndexError unless a is a table
\* with more than j columns
Column(a, j) ==
    IF a.ndim = 2 /\ j < a.ncols
    THEN [err |-> "none", col |-> [i \in 1..Len(a.rows) |-> a.rows[i][j + 1]]]
    ELSE [err |-> "IndexError", col |-> <<>>]

\* a[mask]: a new array of the rows whose mask entry is true
RECURSIVE SelectRows(_, _)
SelectRows(rows, mask) ==
    IF rows = <<>> THEN <<>>
    ELSE (IF Head(mask) THEN <<Head(rows)>> ELSE <<>>)
         \o SelectRows(Tail(rows), Tail(mask))

\* A filter that also rebases the time column of the rows it keeps.
ThresholdFilterRebased(a, ref, thr) ==
    LET c == Column(a, 0)
    IN  IF c.err # "none" THEN [err |-> c.err, arr |-> NoArray]
        ELSE LET mask == [i \in 1..Len(c.col) |-> c.col[i] - ref > thr]
                 kept == SelectRows(a.rows, mask)
             IN  [err |-> "none",
                  arr |-> [ndim |-> 2, ncols |-> a.ncols,
                           rows |-> [i \in 1..Len(kept) |->
                                       [kept[i] EXCEPT ![1] = @ - ref]]]]

\* A filter that keeps the rows at the threshold too.
ThresholdFilterInclusive(a, ref, thr) ==
    LET c == Column(a, 0)
    IN  IF c.err # "none" THEN [err |-> c.err, arr |-> NoArray]
        ELSE LET mask == [i \in 1..Len(c.col) |-> c.col[i] - ref >= thr]
             IN  [err |-> "none",
                  arr |-> [ndim |-> 2, ncols |-> a.ncols,
                           rows |-> SelectRows(a.rows, mask)]]

\* a[a[:,0]-ref>thr]
ThresholdFilter(a, ref, thr) ==
    LET c == Column(a, 0)
    IN  IF c.err # "none" THEN [err |-> c.err, arr |-> NoArray]
        ELSE LET mask == [i \in 1..Len(c.col) |-> c.col[i] - ref > thr]
             IN  [err |-> "none",
                  arr |-> [ndim |-> 2, ncols |-> a.ncols,
                           rows |-> SelectRows(a.rows, mask)]]

\* The literals of the ramp-down cell's filters.
REF_EPOCH == 1426114000
THRESHOLD == 3400


---------------------------------------------------------------------------
(* File names and log lines.                                               *)

\* "lock-in-1426114577.log" (line 80)
LOCKIN_RAMP == <<"l", "o", "c", "k", "-", "i", "n", "-", "1", "4", "2", "6", "1", "1", "4", "5", "7", "7", ".", "l", "o", "g">>
\* "power-supply-1426114790.log" (line 81)
PS_RAMP == <<"p", "o", "w", "e", "r", "-", "s", "u", "p", "p", "l", "y", "-", "1", "4", "2", "6", "1", "1", "4", "7", "9", "0", ".", "l", "o", "g">>
\* 'lock-in' (line 142) and 'power-supply' (line 144)
P_LOCKIN == <<"l", "o", "c", "k", "-", "i", "n">>
P_PS == <<"p", "o", "w", "e", "r", "-", "s", "u", "p", "p", "l", "y">>

\* Other names a data directory may hold.
N_LOCKIN_B == <<"l", "o", "c", "k", "-", "i", "n", "-", "2", ".", "l", "o", "g">>
N_NOTES == <<"n", "o", "t", "e", "s", ".", "t", "x", "t">>
N_UPPER == <<"L", "o", "c", "k", "-", "i", "n", "-", "3", ".", "l", "o", "g">>
N_SHORT == <<"l", "o", "c", "k", "-", "i">>
N_INNER == <<"x", "l", "o", "c", "k", "-", "i", "n", ".", "l", "o", "g">>

\* Log lines, as iterating a file yields them (with the line break).
T_AT == <<"1", "4", "2", "6", "1", "1", "7", "4", "0", "0", ",", "5", "\n">>
T_GT == <<"1", "4", "2", "6", "1", "1", "7", "4", "0", "1", ",", "6", "\n">>
T_LT == <<" ", "1", "4", "2", "6", "1", "1", "7", "3", "9", "9", " ", ",", " ", "7", " ", "\n">>
T_EXP == <<"1", "4", "2", "6", "1", "1", "7", "4", "0", "2", ",", "2", "E", "1">>
T_ONE == <<"1", "4", "2", "6", "1", "1", "7", "4", "0", "3", "\n">>
T_THREE == <<"1", "4", "2", "6", "1", "1", "7", "4", "0", "4", ",", "8", ",", "9", "\n">>
T_EMPTY == <<"\n">>
T_ALPHA == <<"1", "4", "2", "6", "1", "1", "7", "4", "0", "5", ",", "a", "b", "c", "\n">>
T_PS == <<"1", "4", "2", "6", "1", "1", "7", "4", "0", "6", ",", "-", "3", "\n">>

\* What each line denotes: its numeric fields, or that it is malformed.
LineCases ==
    { [text |-> T_AT,    class |-> "numeric", values |-> <<1426117400, 5>>],
      [text |-> T_GT,    class |-> "numeric", values |-> <<1426117401, 6>>],
      [text |-> T_LT,    class |-> "numeric", values |-> <<1426117399, 7>>],
      [text |-> T_EXP,   class |-> "numeric", values |-> <<1426117402, 20>>],
      [text |-> T_ONE,   class |-> "numeric", values |-> <<1426117403>>],
      [text |-> T_THREE, class |-> "numeric", values |-> <<1426117404, 8, 9>>],
      [text |-> T_PS,    class |-> "numeric", values |-> <<1426117406, 0 - 3>>],
      [text |-> T_EMPTY, class |-> "empty", values |-> <<>>],
      [text |-> T_ALPHA, class |-> "non-numeric", values |-> <<>>] }

LineTexts == {c.text : c \in LineCases}
CaseOf(text) == CHOOSE c \in LineCases : c.text = text

SeqsUpTo(S, n) == UNION {[1..k -> S] : k \in 0..n}

\* A directory from a set of <<name, lines>> entries.
MkDisk(entries) ==
    [n \in {e[1] : e \in entries} |-> (CHOOSE e \in entries : e[1] = n)[2]]

---------------------------------------------------------------------------
(* The notebook session.                                                   *)

\* A session name is unbound, bound to a Python list, or bound to an array.
Unbound == [kind |-> "unbound", rows |-> <<>>, site |-> ""]
PyList(rows) == [kind |-> "list", rows |-> rows, site |-> ""]
NdArray(site) == [kind |-> "ndarray", rows |-> <<>>, site |-> site]

NoOffset == [bound |-> FALSE, val |-> 0]
Offset(v) == [bound |-> TRUE, val |-> v]

\* The arrays are named by the line whose np.asarray or mask builds them.
Sites == {"run@55", "run_ps@62", "run@87", "run@88", "run_ps@93", "run_ps@94",
          "lockindata@162", "psdata@179"}

Cells == {"quickplot", "rampdown", "scan", "load_lockin", "load_ps",
          "plot_all", "zoom_end", "zoom_rampdown"}

NoOut == [cell |-> "none", args |-> <<>>, err |-> "none", at |-> "end",
          done |-> <<>>, xlim |-> <<>>, series |-> <<>>]

\* The names a cell can read and write, and the record of its execution.
Frame(cell, args) ==
    [files |-> files, lockinfiles |-> lockinfiles, psfiles |-> psfiles,
     run |-> run, run_ps |-> run_ps, lockindata |-> lockindata,
     psdata |-> psdata, offset |-> offset, heap |-> heap,
     qrun |-> Unbound, qrun_ps |-> Unbound,
     out |-> [NoOut EXCEPT !.cell = cell, !.args = args]]

\* A statement takes the frame the statements before it left, as one value.
The(S) == CHOOSE x \in S : TRUE

Live(fr) == fr.out.err = "none"
Raise(fr, step, e) == [fr EXCEPT !.out.err = e, !.out.at = step]
Done(fr, step) == [fr EXCEPT !.out.done = Append(@, step)]

\* The cell's assignments become the session's.
Commit(body) ==
    \E fr \in {body} :
        /\ files' = fr.files
        /\ lockinfiles' = fr.lockinfiles
        /\ psfiles' = fr.psfiles
        /\ run' = fr.run
        /\ run_ps' = fr.run_ps
        /\ lockindata' = fr.lockindata
        /\ psdata' = fr.psdata
        /\ offset' = fr.offset
        /\ heap' = fr.heap
        /\ out' = fr.out

\* v = []; for f in names: open(f); for line in fh: v.append(...);
\* v = np.asarray(v).  open() of a missing file raises IOError.
RECURSIVE ReadFiles(_, _)
ReadFiles(names, acc) ==
    IF names = <<>> THEN [err |-> "none", rows |-> acc]
    ELSE IF Head(names) \notin DOMAIN disk THEN [err |-> "IOError", rows |-> acc]
    ELSE LET r == ReadRows(disk[Head(names)], acc)
         IN  IF r.err # "none" THEN r ELSE ReadFiles(Tail(names), r.rows)

LoadInto(before, v, names, site, step) ==
    The({ IF ~Live(fr) THEN fr
          ELSE IF r.err # "none"
          THEN Raise([fr EXCEPT ![v] = PyList(r.rows)], step, r.err)
          ELSE Done([fr EXCEPT ![v] = NdArray(site),
                               !.heap[site] = AsArray(r.rows)], step) :
          fr \in {before}, r \in {ReadFiles(names, <<>>)} })

\* A filter that shrinks the array it is applied to.
FilterVarInPlace(before, v, site, step) ==
    The({ IF ~Live(fr) THEN fr
          ELSE LET f == ThresholdFilter(fr.heap[fr[v].site], REF_EPOCH, THRESHOLD)
               IN  IF f.err # "none" THEN Raise(fr, step, f.err)
                   ELSE Done([fr EXCEPT !.heap[fr[v].site] = f.arr,
                                        !.heap[site] = f.arr,
                                        ![v] = NdArray(site)], step) :
          fr \in {before} })

\* v = v[v[:,0]-1.426114e9>3400]
FilterVar(before, v, site, step) ==
    The({ IF ~Live(fr) THEN fr
          ELSE LET f == ThresholdFilter(fr.heap[fr[v].site], REF_EPOCH, THRESHOLD)
               IN  IF f.err # "none" THEN Raise(fr, step, f.err)
                   ELSE Done([fr EXCEPT ![v] = NdArray(site),
                                        !.heap[site] = f.arr], step) :
          fr \in {before} })

\* The columns v[:,0] and v[:,1] of the name v: NameError when v is unbound,
\* TypeError when it is a list, IndexError when the array is no table of at
\* least two columns.
Columns01(fr, v) ==
    IF fr[v].kind = "unbound" THEN [err |-> "NameError", x |-> <<>>, y |-> <<>>]
    ELSE IF fr[v].kind = "list" THEN [err |-> "TypeError", x |-> <<>>, y |-> <<>>]
    ELSE LET a == fr.heap[fr[v].site]
             x == Column(a, 0)
             y == Column(a, 1)
         IN  IF x.err # "none" \/ y.err # "none"
             THEN [err |-> "IndexError", x |-> <<>>, y |-> <<>>]
             ELSE [err |-> "none", x |-> x.col, y |-> y.col]

\* ax.plot(v[:,0], v[:,1])
PlotVar(before, v, step) ==
    The({ IF ~Live(fr) THEN fr
          ELSE LET c == Columns01(fr, v)
               IN  IF c.err # "none" THEN Raise(fr, step, c.err)
                   ELSE Done([fr EXCEPT !.out.series =
                                 Append(@, [x |-> c.x, y |-> c.y])], step) :
          fr \in {before} })


---------------------------------------------------------------------------
(* The cells.  Each cell is one action: its statements in order, the first *)
(* exception ending it with the assignments made so far in place.          *)

\* The paths quickplot is called with.
QuickplotArgs == {<<LOCKIN_RAMP, PS_RAMP>>, <<N_LOCKIN_B, PS_RAMP>>}

\* def quickplot(lockinfile, psfile) (lines 49-69); run and run_ps are its
\* locals.
QuickplotBody(lf, pf) ==
    LET f0 == Frame("quickplot", <<lf, pf>>)
        f1 == LoadInto(f0, "qrun", <<lf>>, "run@55", "load_run")
        f2 == LoadInto(f1, "qrun_ps", <<pf>>, "run_ps@62", "load_ps")
        f3 == PlotVar(f2, "qrun_ps", "plot_ps")
    IN  PlotVar(f3, "qrun", "plot_run")

QuickplotCell ==
    /\ \E a \in QuickplotArgs : Commit(QuickplotBody(a[1], a[2]))
    /\ UNCHANGED <<disk, fvars, pvars, svars>>

\* offset = 1.426117e9 (line 102) and offset = 1.42604e9 (line 202)
OFFSET_RAMP == 1426117000
OFFSET_ZOOM == 1426040000

\* lines 102-106: the offset and the marker lines
Markers(before) ==
    The({ IF ~Live(fr) THEN fr
          ELSE Done([fr EXCEPT !.offset = Offset(OFFSET_RAMP)], "markers") :
          fr \in {before} })

\* open(lockinfile) precedes run = [] (lines 83-84): a missing file leaves
\* run as it was.
OpenFirst(before, v, name, step) ==
    The({ IF ~Live(fr) THEN fr
          ELSE IF name \notin DOMAIN disk THEN Raise(fr, step, "IOError")
          ELSE fr :
          fr \in {before} })

\* the ramp-down cell (lines 80-108)
RampDownBody ==
    LET f0 == Frame("rampdown", <<LOCKIN_RAMP, PS_RAMP>>)
        f1 == LoadInto(OpenFirst(f0, "run", LOCKIN_RAMP, "load_run"),
                       "run", <<LOCKIN_RAMP>>, "run@87", "load_run")
        f2 == FilterVar(f1, "run", "run@88", "filter_run")
        f3 == LoadInto(OpenFirst(f2, "run_ps", PS_RAMP, "load_ps"),
                       "run_ps", <<PS_RAMP>>, "run_ps@93", "load_ps")
        f4 == FilterVar(f3, "run_ps", "run_ps@94", "filter_ps")
        f5 == PlotVar(f4, "run_ps", "plot_ps")
        f6 == PlotVar(f5, "run", "plot_run")
    IN  Markers(f6)

RampDownCell ==
    /\ Commit(RampDownBody)
    /\ UNCHANGED <<disk, fvars, pvars, svars>>

\* The orders os.listdir may return the directory's names in.
Listings ==
    LET names == DOMAIN disk
        n == Cardinality(names)
    IN  {l \in [1..n -> names] : \A i, j \in 1..n : i # j => l[i] # l[j]}

\* for f in files: if f.startswith(prefix): list.append(f)
RECURSIVE WithPrefix(_, _)
WithPrefix(names, prefix) ==
    IF names = <<>> THEN <<>>
    ELSE (IF StartsWith(Head(names), prefix) THEN <<Head(names)>> ELSE <<>>)
         \o WithPrefix(Tail(names), prefix)

\* Find lock-in and power supply files (lines 137-145)
ScanBody(listing) ==
    LET f0 == Frame("scan", <<>>)
    IN  Done([f0 EXCEPT !.files = PyList(listing),
                        !.lockinfiles = PyList(WithPrefix(listing, P_LOCKIN)),
                        !.psfiles = PyList(WithPrefix(listing, P_PS))], "scan")

ScanCell ==
    /\ \E listing \in Listings : Commit(ScanBody(listing))
    /\ UNCHANGED <<disk, fvars, pvars, svars>>

\* A load that starts the list again for each file.
LoadAllLastFile(fr, v, names, site, step) ==
    IF fr[names].kind = "unbound"
    THEN Raise([fr EXCEPT ![v] = PyList(<<>>)], step, "NameError")
    ELSE LoadInto(fr, v,
                  IF fr[names].rows = <<>> THEN <<>>
                  ELSE <<fr[names].rows[Len(fr[names].rows)]>>, site, step)

\* v = [] and then for f in names (lines 157-158, 174-175): the list is
\* bound before names is looked up.
LoadAll(fr, v, names, site, step) ==
    IF fr[names].kind = "unbound"
    THEN Raise([fr EXCEPT ![v] = PyList(<<>>)], step, "NameError")
    ELSE LoadInto(fr, v, fr[names].rows, site, step)

\* Load lock-in files (lines 156-162)
LoadLockinBody ==
    LoadAll(Frame("load_lockin", <<>>), "lockindata", "lockinfiles",
            "lockindata@162", "load_lockin")

LoadLockinCell ==
    /\ Commit(LoadLockinBody)
    /\ UNCHANGED <<disk, fvars, pvars, svars>>

\* Load power supply files (lines 173-179)
LoadPsBody ==
    LoadAll(Frame("load_ps", <<>>), "psdata", "psfiles",
            "psdata@179", "load_ps")

LoadPsCell ==
    /\ Commit(LoadPsBody)
    /\ UNCHANGED <<disk, fvars, pvars, svars>>

\* plt.plot(lockindata[:,0]-lockindata[0,0], lockindata[:,1]) (line 190)
PlotAllBody ==
    LET f0 == Frame("plot_all", <<>>)
        c == Columns01(f0, "lockindata")
    IN  IF c.err # "none" THEN Raise(f0, "plot_lockin", c.err)
        ELSE IF c.x = <<>> THEN Raise(f0, "plot_lockin", "IndexError")
        ELSE Done([f0 EXCEPT !.out.series =
                      <<[x |-> [i \in 1..Len(c.x) |-> c.x[i] - c.x[1]],
                         y |-> c.y]>>], "plot_lockin")

PlotAllCell ==
    /\ Commit(PlotAllBody)
    /\ UNCHANGED <<disk, fvars, pvars, svars>>

\* ax1.set_xlim(offset+lo, offset+hi): NameError when offset is unbound
SetXlim(before, lo, hi) ==
    The({ IF ~Live(fr) THEN fr
          ELSE IF ~fr.offset.bound THEN Raise(fr, "set_xlim", "NameError")
          ELSE Done([fr EXCEPT !.out.xlim =
                        <<fr.offset.val + lo, fr.offset.val + hi>>], "set_xlim") :
          fr \in {before} })

\* A zoom that takes its offset from a literal of its own.
ZoomRampdownOwnOffset ==
    LET f0 == Frame("zoom_rampdown", <<>>)
        f1 == Done([f0 EXCEPT !.out.xlim =
                       <<OFFSET_ZOOM + 87100, OFFSET_ZOOM + 87300>>], "set_xlim")
        f2 == PlotVar(f1, "psdata", "plot_ps")
    IN  PlotVar(f2, "lockindata", "plot_lockin")

\* Zoom in on the end (lines 200-208)
ZoomEndBody ==
    LET f0 == [Frame("zoom_end", <<>>) EXCEPT !.offset = Offset(OFFSET_ZOOM)]
        f1 == SetXlim(f0, 82000, 88000)
        f2 == PlotVar(f1, "psdata", "plot_ps")
    IN  PlotVar(f2, "lockindata", "plot_lockin")

ZoomEndCell ==
    /\ Commit(ZoomEndBody)
    /\ UNCHANGED <<disk, fvars, pvars, svars>>

\* Zoom in on one rampdown (lines 218-225)
ZoomRampdownBody ==
    LET f0 == Frame("zoom_rampdown", <<>>)
        f1 == SetXlim(f0, 87100, 87300)
        f2 == PlotVar(f1, "psdata", "plot_ps")
    IN  PlotVar(f2, "lockindata", "plot_lockin")

ZoomRampdownCell ==
    /\ Commit(ZoomRampdownBody)
    /\ UNCHANGED <<disk, fvars, pvars, svars>>

---------------------------------------------------------------------------
(* The print-view script (src/unnamed/part_000, lines 1-19).               *)

HiddenIds == {"print", "NoDisplayInPrint", "NoDisplayInPrint2", "NoDisplayInPrint3"}
\* WebPartElementID (line 1), an element the script does not name
WebPartElementID == "ctl00_MSO_ContentDiv"
ElementIds == HiddenIds \cup {WebPartElementID}

Absent == [present |-> FALSE, display |-> "", visibility |-> ""]

\* The statements of lines 3-18: if (getElementById(test))
\* getElementById(target).style[prop] = value
HideStmts ==
    << [test |-> "print", target |-> "print",
        prop |-> "display", value |-> "none"],
       [test |-> "NoDisplayInPrint", target |-> "NoDisplayInPrint",
        prop |-> "display", value |-> "none"],
       [test |-> "NoDisplayInPrint2", target |-> "NoDisplayInPrint2",
        prop |-> "display", value |-> "none"],
       [test |-> "NoDisplayInPrint3", target |-> "NoDisplayInPrint3",
        prop |-> "display", value |-> "none"],
       [test |-> "print", target |-> "print",
        prop |-> "visibility", value |-> "hidden"],
       [test |-> "NoDisplayInPrint", target |-> "NoDisplayInPrint",
        prop |-> "visibility", value |-> "hidden"],
       [test |-> "NoDisplayInPrint2", target |-> "NoDisplayInPrint2",
        prop |-> "visibility", value |-> "hidden"],
       [test |-> "NoDisplayInPrint2", target |-> "NoDisplayInPrint3",
        prop |-> "visibility", value |-> "hidden"] >>

\* One if statement: getElementById of an absent id is null, and null.style
\* throws TypeError, which ends the script.
HideStep ==
    /\ ppc <= Len(HideStmts)
    /\ ~pthrew
    /\ LET st == HideStmts[ppc]
       IN  IF ~dom[st.test].present
           THEN /\ ppc' = ppc + 1
                /\ UNCHANGED <<dom, pthrew>>
           ELSE IF ~dom[st.target].present
           THEN /\ pthrew' = TRUE
                /\ UNCHANGED <<dom, ppc>>
           ELSE /\ dom' = [dom EXCEPT ![st.target][st.prop] = st.value]
                /\ ppc' = ppc + 1
                /\ UNCHANGED pthrew
    /\ UNCHANGED <<nbvars, fvars, svars>>

InitPrintIdle ==
    /\ dom = [e \in ElementIds |-> Absent]
    /\ ppc = 1
    /\ pthrew = FALSE

\* The page before the script runs: each element absent, or present with a
\* style that shows it.
InitPrint ==
    /\ dom \in [ElementIds ->
                  {Absent} \cup {[present |-> TRUE, display |-> d, visibility |-> ""] :
                                   d \in {"", "block"}}]
    /\ ppc = 1
    /\ pthrew = FALSE

---------------------------------------------------------------------------
(* The insert-symbol loader (mavention.sharepoint.insertsymbol.loader.js). *)
(* SP.SOD.executeOrDelayUntilScriptLoaded(f, key) calls f at once when the *)
(* script key has loaded and queues f until then otherwise; the page loads *)
(* its scripts in no fixed order, and a script may never load.             *)

\* sp.js and cui.js (lines 15-16), and the scripts lines 1-2 refer to
Scripts == {"sp.js", "cui.js", "init.js", "microsoftajax.js"}
COMPONENT == "mavention.sharepoint.insertsymbol.pagecomponent.js"

\* The loader's own state while its callbacks run.
SodState ==
    [loaded |-> loaded, waiting |-> waiting, query |-> query, events |-> events]

\* lines 7-10: the inner callback loads the site and issues the query
InnerCallback(st) ==
    [st EXCEPT !.query = "pending", !.events = Append(@, "query")]

\* An outer callback that does the inner callback's work without the wait
\* for cui.js.
OuterCallbackNoWait(st) == InnerCallback(st)

\* lines 6 and 15: the outer callback runs the inner one when cui.js has
\* loaded and queues it until then otherwise
OuterCallback(st) ==
    IF "cui.js" \in st.loaded THEN InnerCallback(st)
    ELSE [st EXCEPT !.waiting["cui.js"] = Append(@, "inner")]

\* lines 5 and 16: the loader script
RunLoader ==
    /\ ~started
    /\ started' = TRUE
    /\ LET st == IF "sp.js" \in loaded THEN OuterCallback(SodState)
                 ELSE [SodState EXCEPT !.waiting["sp.js"] = Append(@, "outer")]
       IN  /\ waiting' = st.waiting
           /\ query' = st.query
           /\ events' = st.events
    /\ UNCHANGED <<loaded, sods, sodExec, nbvars, fvars, pvars>>

RECURSIVE RunWaiting(_, _)
RunWaiting(st, cbs) ==
    IF cbs = <<>> THEN st
    ELSE RunWaiting(IF Head(cbs) = "outer" THEN OuterCallback(st)
                    ELSE InnerCallback(st), Tail(cbs))

\* A script of the page finishes loading: the callbacks waiting for it run.
ScriptLoaded(k) ==
    /\ k \notin loaded
    /\ LET st0 == [SodState EXCEPT !.loaded = @ \cup {k},
                                   !.waiting[k] = <<>>,
                                   !.events = Append(@, k)]
           st == RunWaiting(st0, waiting[k])
       IN  /\ loaded' = st.loaded
           /\ waiting' = st.waiting
           /\ query' = st.query
           /\ events' = st.events
    /\ UNCHANGED <<started, sods, sodExec, nbvars, fvars, pvars>>

\* lines 10-14: the query succeeds and its callback registers the page
\* component and asks for its initialize function
QuerySucceeds ==
    /\ query = "pending"
    /\ query' = "succeeded"
    /\ sods' = sods \cup {COMPONENT}
    /\ sodExec' = "loading"
    /\ events' = events \o <<"query_ok", "register", "execute">>
    /\ UNCHANGED <<loaded, waiting, started, nbvars, fvars, pvars>>

\* executeQueryAsync is given no failure callback (line 10)
QueryFails ==
    /\ query = "pending"
    /\ query' = "failed"
    /\ events' = Append(events, "query_failed")
    /\ UNCHANGED <<loaded, waiting, started, sods, sodExec, nbvars, fvars, pvars>>

\* SP.SOD.execute (line 13): the registered script loads and its initialize
\* function is called
ComponentLoaded ==
    /\ sodExec = "loading"
    /\ COMPONENT \in sods
    /\ sodExec' = "done"
    /\ events' = Append(events, "initialize")
    /\ UNCHANGED <<loaded, waiting, started, query, sods, nbvars, fvars, pvars>>

InitSodIdle ==
    /\ loaded = {}
    /\ waiting = [k \in Scripts |-> <<>>]
    /\ started = FALSE
    /\ query = "none"
    /\ sods = {}
    /\ sodExec = "idle"
    /\ events = <<>>

---------------------------------------------------------------------------
(* The session after the import and datadir cells: nothing else is bound.  *)

InitSession ==
    /\ files = Unbound
    /\ lockinfiles = Unbound
    /\ psfiles = Unbound
    /\ run = Unbound
    /\ run_ps = Unbound
    /\ lockindata = Unbound
    /\ psdata = Unbound
    /\ offset = NoOffset
    /\ heap = [s \in Sites |-> NoArray]
    /\ out = NoOut

InitFilterIdle ==
    /\ ftable = NoArray
    /\ fprev = NoArray
    /\ fref = 0
    /\ fthr = 0
    /\ fapplied = 0

\* Files of the notebook's directories.
F_GOOD == <<T_AT, T_GT>>
F_RAGGED == <<T_GT, T_ONE>>
F_BAD == <<T_GT, T_ALPHA>>
F_THREE == <<T_THREE>>
F_LT == <<T_LT, T_EXP>>
F_PS == <<T_PS, T_GT>>

\* The directories of the whole notebook: at most MaxFiles files, one
\* content per name.
MainEntries ==
    {<<LOCKIN_RAMP, F_GOOD>>, <<PS_RAMP, F_PS>>, <<PS_RAMP, F_BAD>>,
     <<N_LOCKIN_B, F_LT>>, <<N_LOCKIN_B, F_THREE>>, <<N_NOTES, <<T_ALPHA>>>>}

DisksOf(entries, n) ==
    { MkDisk(E) : E \in {X \in SUBSET entries :
                           /\ Cardinality(X) <= n
                           /\ \A a, b \in X : a[1] = b[1] => a = b} }

Init ==
    /\ disk \in DisksOf(MainEntries, MaxFiles)
    /\ InitSession
    /\ InitFilterIdle
    /\ InitPrintIdle
    /\ InitSodIdle

Next ==
    \/ QuickplotCell
    \/ RampDownCell
    \/ ScanCell
    \/ LoadLockinCell
    \/ LoadPsCell
    \/ PlotAllCell
    \/ ZoomEndCell
    \/ ZoomRampdownCell

Spec == Init /\ [][Next]_vars

---------------------------------------------------------------------------
(* The loading cells alone, on every file of at most MaxLines lines.       *)

InitLoad ==
    /\ disk \in { MkDisk(L \cup P) :
                    L \in {{}} \cup {{<<LOCKIN_RAMP, c>>} :
                                       c \in SeqsUpTo(LineTexts, MaxLines)},
                    P \in {{}, {<<PS_RAMP, F_PS>>}, {<<PS_RAMP, F_RAGGED>>},
                           {<<PS_RAMP, F_BAD>>}} }
    /\ InitSession
    /\ InitFilterIdle
    /\ InitPrintIdle
    /\ InitSodIdle

NextLoad ==
    \/ QuickplotCell
    \/ RampDownCell

SpecLoad == InitLoad /\ [][NextLoad]_vars

---------------------------------------------------------------------------
(* The directory scan alone, on every directory of at most MaxFiles names. *)

\* The names a directory may hold, and the kind of log each is by the
\* naming convention.
NameCases ==
    { [name |-> LOCKIN_RAMP, kind |-> "lock-in"],
      [name |-> N_LOCKIN_B,  kind |-> "lock-in"],
      [name |-> P_LOCKIN,    kind |-> "lock-in"],
      [name |-> PS_RAMP,     kind |-> "power-supply"],
      [name |-> P_PS,        kind |-> "power-supply"],
      [name |-> N_NOTES,     kind |-> "other"],
      [name |-> N_UPPER,     kind |-> "other"],
      [name |-> N_SHORT,     kind |-> "other"],
      [name |-> N_INNER,     kind |-> "other"] }

KindOf(name) == (CHOOSE c \in NameCases : c.name = name).kind

InitScan ==
    /\ disk \in DisksOf({<<c.name, F_GOOD>> : c \in NameCases}, MaxFiles)
    /\ InitSession
    /\ InitFilterIdle
    /\ InitPrintIdle
    /\ InitSodIdle

NextScan == ScanCell

SpecScan == InitScan /\ [][NextScan]_vars

---------------------------------------------------------------------------
(* The threshold filter alone, on every table of at most MaxRows rows.     *)

FilterParams == {<<0, 1>>, <<1, 1>>, <<REF_EPOCH, THRESHOLD>>}
FilterTimes == {1, 2, 3, 1426117400, 1426117401}
FilterRows == {<<t, v>> : t \in FilterTimes, v \in {5, 6}}

InitFilter ==
    /\ ftable \in {AsArray(r) : r \in SeqsUpTo(FilterRows, MaxRows) \ {<<>>}}
    /\ fprev = NoArray
    /\ \E p \in FilterParams : fref = p[1] /\ fthr = p[2]
    /\ fapplied = 0
    /\ disk = MkDisk({})
    /\ InitSession
    /\ InitPrintIdle
    /\ InitSodIdle

\* table = table[table[:,0]-ref>thr]
ApplyFilter ==
    /\ fapplied < MaxApply
    /\ LET f == ThresholdFilter(ftable, fref, fthr)
       IN  /\ f.err = "none"
           /\ ftable' = f.arr
    /\ fprev' = ftable
    /\ fapplied' = fapplied + 1
    /\ UNCHANGED <<fref, fthr, nbvars, pvars, svars>>

NextFilter == ApplyFilter

SpecFilter == InitFilter /\ [][NextFilter]_vars

---------------------------------------------------------------------------
(* The print-view script alone, on every page.                             *)

InitPrintSpec ==
    /\ InitPrint
    /\ disk = MkDisk({})
    /\ InitSession
    /\ InitFilterIdle
    /\ InitSodIdle

NextPrint == HideStep

SpecPrint == InitPrintSpec /\ [][NextPrint]_vars

---------------------------------------------------------------------------
(* The loader alone, on one page load.                                     *)

InitSod ==
    /\ InitSodIdle
    /\ disk = MkDisk({})
    /\ InitSession
    /\ InitFilterIdle
    /\ InitPrintIdle

NextSod ==
    \/ RunLoader
    \/ \E k \in Scripts : ScriptLoaded(k)
    \/ QuerySucceeds
    \/ QueryFails
    \/ ComponentLoaded

SpecSod == InitSod /\ [][NextSod]_vars

---------------------------------------------------------------------------
(* Properties.                                                             *)

\* The position of x among the members of K, counted from 1.
Rank(K, x) == Cardinality({k \in K : k <= x})

\* The rows the filter is to keep: those whose time minus ref exceeds thr.
KeptRows(a, ref, thr) == {i \in 1..Len(a.rows) : a.rows[i][1] - ref > thr}

\* C1: the filtered table holds exactly the rows of the input table whose
\* column-0 value minus the reference constant is strictly greater than the
\* threshold, each unchanged in every column and in the input's order.
C1_FilterKeepsExactly ==
    fapplied = 1 =>
        LET K == KeptRows(fprev, fref, fthr)
        IN  /\ ftable.ndim = 2
            /\ ftable.ncols = fprev.ncols
            /\ Len(ftable.rows) = Cardinality(K)
            /\ \A i \in K : ftable.rows[Rank(K, i)] = fprev.rows[i]

\* A table of three rows, the first at the threshold and dropped, the other
\* two kept.
C1_Witness ==
    /\ fapplied = 1
    /\ Len(fprev.rows) = 3
    /\ fprev.rows[1][1] - fref = fthr
    /\ KeptRows(fprev, fref, fthr) = {2, 3}
    /\ fprev.rows[2] # fprev.rows[3]

\* C3: filtering an already filtered table again, with the same reference
\* constant and threshold, gives the once-filtered table.
C3_FilterIdempotent == fapplied >= 2 => ftable = fprev

\* The filter applied twice with the notebook's literals, rows remaining.
C3_Witness ==
    /\ fapplied = 2
    /\ fref = REF_EPOCH
    /\ fthr = THRESHOLD
    /\ Len(ftable.rows) = 2

\* A file of well-formed lines that all hold the same number of fields.
WellFormed(lines) ==
    /\ lines # <<>>
    /\ \A i \in 1..Len(lines) :
          /\ CaseOf(lines[i]).class = "numeric"
          /\ Len(CaseOf(lines[i]).values) = Len(CaseOf(lines[1]).values)

ExpectedRows(lines) == [i \in 1..Len(lines) |-> CaseOf(lines[i]).values]

\* The array a is the table of the file name: N rows, K columns, row i the
\* values of line i.
TableIs(a, name) ==
    /\ a.ndim = 2
    /\ Len(a.rows) = Len(disk[name])
    /\ a.ncols = Len(CaseOf(disk[name][1]).values)
    /\ a.rows = ExpectedRows(disk[name])

IsTableOf(site, name) == TableIs(heap[site], name)

LoadCells == {"quickplot", "rampdown"}
RunSite == IF out.cell = "rampdown" THEN "run@87" ELSE "run@55"
PsSite == IF out.cell = "rampdown" THEN "run_ps@93" ELSE "run_ps@62"
\* The step before the power-supply file is opened.
BeforePs == IF out.cell = "rampdown" THEN "filter_run" ELSE "load_run"
InSeq(x, sq) == \E i \in 1..Len(sq) : sq[i] = x
PsReached == InSeq(BeforePs, out.done)

\* C2: from a file of N well-formed lines of K numeric fields each, the
\* loader builds a table of N rows and K columns, row i holding the values
\* of line i.
C2_LoaderTable ==
    out.cell \in LoadCells =>
        /\ (out.args[1] \in DOMAIN disk /\ WellFormed(disk[out.args[1]]))
              => IsTableOf(RunSite, out.args[1])
        /\ (PsReached /\ out.args[2] \in DOMAIN disk
               /\ WellFormed(disk[out.args[2]]))
              => IsTableOf(PsSite, out.args[2])

\* The ramp-down cell has loaded a file of two lines, one padded with
\* blanks and one with an exponent in upper case.
C2_Witness ==
    /\ out.cell = "rampdown"
    /\ LOCKIN_RAMP \in DOMAIN disk
    /\ disk[LOCKIN_RAMP] = <<T_LT, T_EXP>>
    /\ InSeq("load_run", out.done)

\* The names of kind k in the listing, by their positions.
OfKind(listing, k) == {i \in 1..Len(listing) : KindOf(listing[i]) = k}

IsSelection(sel, listing, k) ==
    LET K == OfKind(listing, k)
    IN  /\ Len(sel) = Cardinality(K)
        /\ \A i \in K : sel[Rank(K, i)] = listing[i]

\* C4: after the scan, lockinfiles is exactly the listed names that start
\* with 'lock-in' and psfiles exactly those that start with 'power-supply',
\* each in listing order; no name is in both, and every listed name has been
\* looked at.
C4_ScanPartitions ==
    out.cell = "scan" =>
        /\ out.err = "none"
        /\ {files.rows[i] : i \in 1..Len(files.rows)} = DOMAIN disk
        /\ Len(files.rows) = Cardinality(DOMAIN disk)
        /\ IsSelection(lockinfiles.rows, files.rows, "lock-in")
        /\ IsSelection(psfiles.rows, files.rows, "power-supply")
        /\ \A i \in 1..Len(lockinfiles.rows) :
              ~InSeq(lockinfiles.rows[i], psfiles.rows)

\* A listing that starts with a name of neither kind and then holds one of
\* each.
C4_Witness ==
    /\ out.cell = "scan"
    /\ Len(files.rows) = 3
    /\ KindOf(files.rows[1]) = "other"
    /\ Len(lockinfiles.rows) = 1
    /\ Len(psfiles.rows) = 1

\* What is wrong with the file a cell reads as its r-th (1: the lock-in
\* file, 2: the power-supply file).
Missing(name) == name \notin DOMAIN disk
HasBadLine(name) ==
    /\ ~Missing(name)
    /\ \E i \in 1..Len(disk[name]) : CaseOf(disk[name][i]).class # "numeric"
Ragged(name) ==
    /\ ~Missing(name)
    /\ ~HasBadLine(name)
    /\ \E i, j \in 1..Len(disk[name]) :
          Len(CaseOf(disk[name][i]).values) # Len(CaseOf(disk[name][j]).values)
Malformed(name) == Missing(name) \/ HasBadLine(name) \/ Ragged(name)

LoadStep(r) == IF r = 1 THEN "load_run" ELSE "load_ps"
FilterStep(r) == IF r = 1 THEN "filter_run" ELSE "filter_ps"
PlotStep(r) == IF r = 1 THEN "plot_run" ELSE "plot_ps"
UseSteps(r) == {FilterStep(r), PlotStep(r)}
\* The first step that takes a column of the r-th table.
FirstUse(r) == IF out.cell = "rampdown" THEN FilterStep(r) ELSE PlotStep(r)
Reached(r) == r = 1 \/ PsReached

\* C5 as claimed: a missing file, an empty line, a ragged row or a
\* non-numeric field makes the loading step itself raise, and no filter or
\* plot step runs on that file's table.
C5_LoadStepRaises ==
    out.cell \in LoadCells =>
        \A r \in {1, 2} :
            (Reached(r) /\ Malformed(out.args[r])) =>
                /\ out.err # "none"
                /\ out.at = LoadStep(r)
                /\ \A u \in UseSteps(r) : ~InSeq(u, out.done)

\* C5 (amended): a missing file raises IOError and an empty line or a
\* non-numeric field raises ValueError in the loading step.  A file of
\* numeric lines with ragged rows passes the loading step, and the cell halts
\* with IndexError at the first step that takes a column of that table (the
\* filter in the ramp-down cell, the plot call in quickplot, which has drawn
\* the power-supply trace by then when the lock-in file is the ragged one),
\* unless the other file stops quickplot first.  In every case no filter or
\* plot step completes on the table of the failed file.
C5_HaltsBeforeUse ==
    out.cell \in LoadCells =>
        \A r \in {1, 2} :
            Reached(r) =>
                /\ Missing(out.args[r]) =>
                      out.err = "IOError" /\ out.at = LoadStep(r)
                /\ HasBadLine(out.args[r]) =>
                      out.err = "ValueError" /\ out.at = LoadStep(r)
                /\ Ragged(out.args[r]) =>
                      /\ InSeq(LoadStep(r), out.done)
                      /\ out.err # "none"
                      /\ \/ out.at = FirstUse(r) /\ out.err = "IndexError"
                         \/ /\ out.cell = "quickplot"
                            /\ r = 1
                            /\ out.at \in {"load_ps", "plot_ps"}
                      /\ (out.cell = "quickplot" /\ r = 1
                            /\ ~Missing(out.args[2])
                            /\ WellFormed(disk[out.args[2]])
                            /\ Len(CaseOf(disk[out.args[2]][1]).values) >= 2)
                           => out.at = "plot_run" /\ InSeq("plot_ps", out.done)
                /\ Malformed(out.args[r]) =>
                      \A u \in UseSteps(r) : ~InSeq(u, out.done)

\* quickplot on a ragged lock-in file and a good power-supply file: the load
\* passed, the power-supply trace is drawn, and the lock-in plot raised.
C5_Witness ==
    /\ out.cell = "quickplot"
    /\ Ragged(out.args[1])
    /\ out.err = "IndexError"
    /\ out.at = "plot_run"
    /\ Len(out.series) = 1

\* The sites whose arrays a cell's lines build.
BuiltBy(cell) ==
    CASE cell = "quickplot" -> {"run@55", "run_ps@62"}
      [] cell = "rampdown" -> {"run@87", "run@88", "run_ps@93", "run_ps@94"}
      [] cell = "load_lockin" -> {"lockindata@162"}
      [] cell = "load_ps" -> {"psdata@179"}
      [] OTHER -> {}

PlotCells == {"plot_all", "zoom_end", "zoom_rampdown"}

\* C6: no step changes a loaded table.  A cell leaves every array unchanged
\* that its own lines do not build; the plotting cells leave every array and
\* the names lockindata and psdata unchanged; and after the ramp-down cell's
\* filters and after quickplot's plots the loaded arrays still hold the
\* files' rows, the filter's result being a new array.
C6_TablesImmutable ==
    [][ /\ \A s \in Sites \ BuiltBy(out'.cell) : heap'[s] = heap[s]
        /\ out'.cell \in PlotCells =>
              heap' = heap /\ lockindata' = lockindata /\ psdata' = psdata
        /\ (out'.cell = "rampdown" /\ InSeq("filter_run", out'.done)) =>
              run'.site # "run@87" /\ TableIs(heap'["run@87"], LOCKIN_RAMP)
        /\ (out'.cell = "rampdown" /\ InSeq("filter_ps", out'.done)) =>
              run_ps'.site # "run_ps@93" /\ TableIs(heap'["run_ps@93"], PS_RAMP)
        /\ (out'.cell = "quickplot" /\ InSeq("plot_run", out'.done)) =>
              TableIs(heap'["run@55"], out'.args[1])
      ]_vars

\* The ramp-down cell has filtered rows away, and the loaded table is whole.
C6_Witness ==
    /\ out.cell = "rampdown"
    /\ InSeq("filter_run", out.done)
    /\ Len(heap["run@88"].rows) < Len(heap["run@87"].rows)
    /\ Len(heap["run@87"].rows) = Len(disk[LOCKIN_RAMP])

\* The traces a table gives: its columns 0 and 1, if it has them.
SeriesOf(a) ==
    IF a.ndim = 2 /\ a.ncols >= 2
    THEN <<[x |-> [i \in 1..Len(a.rows) |-> a.rows[i][1]],
            y |-> [i \in 1..Len(a.rows) |-> a.rows[i][2]]]>>
    ELSE <<>>

Rebased(sr) ==
    [k \in 1..Len(sr) |->
        [x |-> [i \in 1..Len(sr[k].x) |-> sr[k].x[i] - sr[k].x[1]],
         y |-> sr[k].y]]

\* The traces of the table read now from the files names.
FreshSeries(names) ==
    LET r == ReadFiles(names, <<>>)
    IN  IF r.err = "none" THEN SeriesOf(AsArray(r.rows)) ELSE <<>>

\* The traces of the table a session name is bound to.
SessionSeries(v) ==
    IF v.kind = "ndarray" THEN SeriesOf(heap[v.site]) ELSE <<>>

ZoomLimits(cell, off) ==
    IF cell = "zoom_end" THEN <<off + 82000, off + 88000>>
    ELSE <<off + 87100, off + 87300>>

\* The power-supply trace, then the lock-in trace; nothing when the first
\* plot call fails.
TwoTraces(ps, li) == IF ps = <<>> THEN <<>> ELSE ps \o li

\* C7 as claimed: whatever ran before, a plotting cell draws the tables as
\* read now from the files (the directory listed in some order), and a zoom
\* cell uses the x-limits of the zoom offset literal.
C7_CellsIndependent ==
    out.cell \in PlotCells =>
        \E l \in Listings :
            LET ps == FreshSeries(WithPrefix(l, P_PS))
                li == FreshSeries(WithPrefix(l, P_LOCKIN))
            IN  IF out.cell = "plot_all"
                THEN out.series = Rebased(li)
                ELSE /\ out.series = TwoTraces(ps, li)
                     /\ out.xlim = ZoomLimits(out.cell, OFFSET_ZOOM)

\* C7 (amended): a plotting cell draws the tables the names lockindata and
\* psdata are bound to when it runs, as the load cells left them, and fails
\* with NameError when the name it needs first is unbound; the zoom on one
\* rampdown takes its x-limits from the offset last assigned, by the
\* ramp-down cell or by the zoom on the end, and fails with NameError when
\* there is none.
C7_DrawsSessionState ==
    out.cell \in PlotCells =>
        LET ps == SessionSeries(psdata)
            li == SessionSeries(lockindata)
        IN  IF out.cell = "plot_all"
            THEN /\ out.series = Rebased(li)
                 /\ (out.err = "NameError") = (lockindata.kind = "unbound")
            ELSE IF ~offset.bound
            THEN /\ out.cell = "zoom_rampdown"
                 /\ out.err = "NameError"
                 /\ out.at = "set_xlim"
                 /\ out.xlim = <<>>
                 /\ out.series = <<>>
            ELSE /\ out.cell = "zoom_end" => offset.val = OFFSET_ZOOM
                 /\ out.xlim = ZoomLimits(out.cell, offset.val)
                 /\ out.series = TwoTraces(ps, li)
                 /\ (out.err = "NameError") =
                       \/ psdata.kind = "unbound"
                       \/ ps # <<>> /\ lockindata.kind = "unbound"

\* The zoom on one rampdown has drawn both traces with the ramp-down cell's
\* offset.
C7_Witness ==
    /\ out.cell = "zoom_rampdown"
    /\ offset = Offset(OFFSET_RAMP)
    /\ out.xlim = <<OFFSET_RAMP + 87100, OFFSET_RAMP + 87300>>
    /\ Len(out.series) = 2

RECURSIVE ExpectedConcat(_)
ExpectedConcat(names) ==
    IF names = <<>> THEN <<>>
    ELSE ExpectedRows(disk[Head(names)]) \o ExpectedConcat(Tail(names))

RECURSIVE SumLines(_)
SumLines(names) ==
    IF names = <<>> THEN 0 ELSE Len(disk[Head(names)]) + SumLines(Tail(names))

LoadedAll(v, names, site, kind) ==
    /\ v = NdArray(site)
    /\ \A i \in 1..Len(names) : KindOf(names[i]) = kind
    /\ heap[site].rows = ExpectedConcat(names)
    /\ Len(heap[site].rows) = SumLines(names)

C9_HidesEveryPresent ==
    /\ ~pthrew
    /\ ppc = Len(HideStmts) + 1 =>
          \A e \in HiddenIds :
              dom[e].present =>
                  dom[e].display = "none" /\ dom[e].visibility = "hidden"
    /\ dom[WebPartElementID].display # "none"
    /\ dom[WebPartElementID].visibility # "hidden"
    /\ \A e \in ElementIds : ~dom[e].present => dom[e] = Absent

Count(e) == Cardinality({i \in 1..Len(events) : events[i] = e})
Pos(e) == CHOOSE i \in 1..Len(events) : events[i] = e
Happened(e) == InSeq(e, events)

\* C10 as claimed: registration and initialize come only after sp.js loaded,
\* then cui.js loaded, then the query succeeded, registration first, each at
\* most once, and not at all without both scripts and a successful query.
C10_LoadsInOrder ==
    /\ Count("register") <= 1
    /\ Count("initialize") <= 1
    /\ Happened("initialize") => Happened("register")
                                    /\ Pos("register") < Pos("initialize")
    /\ Happened("register") =>
          /\ Happened("sp.js") /\ Happened("cui.js") /\ Happened("query_ok")
          /\ Pos("sp.js") < Pos("cui.js")
          /\ Pos("cui.js") < Pos("query_ok")
          /\ Pos("query_ok") < Pos("register")
    /\ (query # "succeeded" \/ "sp.js" \notin loaded \/ "cui.js" \notin loaded)
          => ~Happened("register") /\ ~Happened("initialize")

\* C10 (amended): registration and initialize come only after both sp.js and
\* cui.js have loaded, in either order, the query having been issued after
\* both and having succeeded; registration first, each at most once, and not
\* at all without both scripts and a successful query.
C10_AfterBothLoaded ==
    /\ Count("register") <= 1
    /\ Count("initialize") <= 1
    /\ Happened("initialize") => Happened("register")
                                    /\ Pos("register") < Pos("initialize")
    /\ Happened("register") =>
          /\ Happened("sp.js") /\ Happened("cui.js")
          /\ Happened("query") /\ Happened("query_ok")
          /\ Pos("sp.js") < Pos("query")
          /\ Pos("cui.js") < Pos("query")
          /\ Pos("query") < Pos("query_ok")
          /\ Pos("query_ok") < Pos("register")
    /\ (query # "succeeded" \/ "sp.js" \notin loaded \/ "cui.js" \notin loaded)
          => ~Happened("register") /\ ~Happened("initialize")

\* initialize has run on a page where cui.js loaded before sp.js.
C10_Witness ==
    /\ Happened("initialize")
    /\ Pos("cui.js") < Pos("sp.js")

===========================================================================
